---------------------------- MODULE Spec2Model ----------------------------
(***************************************************************************)
(* A model of the chess engine core (src/lib/engine-core.js): the position *)
(* codec (fenToState / generateFEN), the attack detector, the move         *)
(* generator with its legality filter, makeMove / undoMove, the evaluator  *)
(* and the alpha-beta search.                                              *)
(*                                                                         *)
(* Encoding of JavaScript values:                                          *)
(*   - a string is a sequence of one-character strings;                    *)
(*   - null / undefined contents of a board slot are Null;                 *)
(*   - an undefined string (a missing field) is Undefined;                 *)
(*   - NaN, +Infinity and -Infinity are the integers NaN, PosInf, NegInf,  *)
(*     which lie outside the range of every number the engine computes;    *)
(*   - an array is a function whose domain grows when an index outside it  *)
(*     is assigned; reading outside the domain gives Null (undefined).     *)
(***************************************************************************)
EXTENDS Integers, Sequences, FiniteSets, TLC

Null == "null"
Undefined == <<"undefined">>
NaN == -99999999
PosInf == 99999999
NegInf == -99999998

\* ------------------------------------------------------------------------
\* JavaScript primitives used by the engine
\* ------------------------------------------------------------------------

\* a % 8 in JavaScript: the remainder takes the sign of the dividend
Rem8(a) == IF a >= 0 THEN a % 8 ELSE -((-a) % 8)

\* Math.floor(a / 8)
Floor8(a) == IF a >= 0 THEN a \div 8 ELSE -(((-a) + 7) \div 8)

Abs(a) == IF a < 0 THEN -a ELSE a

Max(a, b) == IF a >= b THEN a ELSE b

Min(a, b) == IF a <= b THEN a ELSE b

DIGITS == <<"0", "1", "2", "3", "4", "5", "6", "7", "8", "9">>

RECURSIVE IndexFrom(_, _, _)
IndexFrom(seq, x, i) ==
  IF i > Len(seq) THEN -1
  ELSE IF seq[i] = x THEN i - 1
  ELSE IndexFrom(seq, x, i + 1)

\* Array.prototype.indexOf: the 0-based index of x in seq, -1 when absent
IndexOf(seq, x) == IndexFrom(seq, x, 1)

\* s[i] for a string s and a 0-based index i; undefined past the end
CharAt(s, i) == IF s # Undefined /\ i + 1 <= Len(s) THEN s[i + 1] ELSE Null

IsDigit(c) == IndexOf(DIGITS, c) >= 0

\* !isNaN(char) for one character of a rank text
IsNumericChar(c) == IsDigit(c)

RECURSIVE DigitsValue(_, _, _)
DigitsValue(s, i, acc) ==
  IF i <= Len(s) /\ IsDigit(s[i])
    THEN DigitsValue(s, i + 1, acc * 10 + IndexOf(DIGITS, s[i]))
    ELSE acc

\* parseInt(s, 10): an optional sign and the longest prefix of digits;
\* NaN when there is no digit (also for undefined)
ParseInt(s) ==
  IF s = Undefined \/ s = Null \/ s = <<>> THEN NaN
  ELSE LET signed == s[1] = "-" \/ s[1] = "+"
           start == IF signed THEN 2 ELSE 1
       IN IF start > Len(s) \/ ~IsDigit(s[start]) THEN NaN
          ELSE IF s[1] = "-" THEN -DigitsValue(s, start, 0)
          ELSE DigitsValue(s, start, 0)

RECURSIVE NatToString(_)
NatToString(n) ==
  IF n < 10 THEN <<DIGITS[n + 1]>>
  ELSE NatToString(n \div 10) \o <<DIGITS[(n % 10) + 1]>>

\* String(n) / template interpolation of a number
NumToString(n) ==
  IF n = NaN THEN <<"N", "a", "N">>
  ELSE IF n < 0 THEN <<"-">> \o NatToString(-n)
  ELSE NatToString(n)

\* the fields of s[lo..hi] between the separators, the halves of the range
\* split on their own and the field that runs across the middle joined
RECURSIVE SplitFrom(_, _, _, _)
SplitFrom(s, sep, lo, hi) ==
  IF lo > hi THEN <<<<>>>>
  ELSE IF lo = hi THEN (IF s[lo] = sep THEN <<<<>>, <<>>>> ELSE <<<<s[lo]>>>>)
  ELSE CHOOSE fields \in
         {SubSeq(left, 1, Len(left) - 1)
            \o <<left[Len(left)] \o right[1]>>
            \o SubSeq(right, 2, Len(right)) :
            left \in {SplitFrom(s, sep, lo, (lo + hi) \div 2)},
            right \in {SplitFrom(s, sep, (lo + hi) \div 2 + 1, hi)}} : TRUE

\* String.prototype.split(sep) for a one-character separator
Split(s, sep) ==
  CHOOSE fields \in {SplitFrom(text, sep, 1, Len(text)) : text \in {s}} : TRUE

\* arr[i] (0-based) of an array of strings; undefined past the end
Field(arr, i) == IF i + 1 <= Len(arr) THEN arr[i + 1] ELSE Undefined

UPPER == <<"P", "N", "B", "R", "Q", "K">>
LOWER == <<"p", "n", "b", "r", "q", "k">>

\* String.prototype.toLowerCase / toUpperCase on one character
ToLowerCase(c) == IF IndexOf(UPPER, c) >= 0 THEN LOWER[IndexOf(UPPER, c) + 1] ELSE c

ToUpperCase(c) == IF IndexOf(LOWER, c) >= 0 THEN UPPER[IndexOf(LOWER, c) + 1] ELSE c

\* board[i]: undefined (Null) outside the indices that were ever assigned
Get(board, i) == IF i \in DOMAIN board THEN board[i] ELSE Null

\* board[i] = v
Set(board, i, v) ==
  IF i \in DOMAIN board THEN [board EXCEPT ![i] = v]
  ELSE [j \in (DOMAIN board) \cup {i} |-> IF j = i THEN v ELSE board[j]]

\* ------------------------------------------------------------------------
\* Constants of the engine
\* ------------------------------------------------------------------------

FILES == <<"a", "b", "c", "d", "e", "f", "g", "h">>

KNIGHT_DELTAS == <<-17, -15, -10, -6, 6, 10, 15, 17>>
BISHOP_DELTAS == <<-9, -7, 7, 9>>
ROOK_DELTAS == <<-8, -1, 1, 8>>
QUEEN_DELTAS == BISHOP_DELTAS \o ROOK_DELTAS

PieceValue(p) ==
  CASE p = "p" -> 100
    [] p = "n" -> 320
    [] p = "b" -> 330
    [] p = "r" -> 500
    [] p = "q" -> 900
    [] p = "k" -> 20000
    [] OTHER -> 0

\* ------------------------------------------------------------------------
\* StateCodec
\* ------------------------------------------------------------------------

indexToSquare(idx) ==
  LET file == Rem8(idx)
      rank == Floor8(idx)
      fileText == IF file >= 0 /\ file <= 7 THEN <<FILES[file + 1]>>
                  ELSE <<"u", "n", "d", "e", "f", "i", "n", "e", "d">>
  IN IF idx = NaN
       THEN <<"u", "n", "d", "e", "f", "i", "n", "e", "d", "N", "a", "N">>
       ELSE fileText \o NumToString(rank + 1)

squareToIndex(square) ==
  LET file == IndexOf(FILES, CharAt(square, 0))
      digit == CharAt(square, 1)
      rank == IF digit # Null /\ IsDigit(digit) THEN IndexOf(DIGITS, digit) - 1 ELSE NaN
  IN IF rank = NaN THEN NaN ELSE rank * 8 + file

E1 == squareToIndex(<<"e", "1">>)
F1 == squareToIndex(<<"f", "1">>)
G1 == squareToIndex(<<"g", "1">>)
D1 == squareToIndex(<<"d", "1">>)
C1sq == squareToIndex(<<"c", "1">>)
B1 == squareToIndex(<<"b", "1">>)
A1 == squareToIndex(<<"a", "1">>)
H1 == squareToIndex(<<"h", "1">>)
E8 == squareToIndex(<<"e", "8">>)
F8 == squareToIndex(<<"f", "8">>)
G8 == squareToIndex(<<"g", "8">>)
D8 == squareToIndex(<<"d", "8">>)
C8sq == squareToIndex(<<"c", "8">>)
B8 == squareToIndex(<<"b", "8">>)
A8 == squareToIndex(<<"a", "8">>)
H8 == squareToIndex(<<"h", "8">>)

EmptyBoard == [i \in 0..63 |-> Null]

\* the inner loop of fenToState over the characters of one rank text:
\* returns the board after the rank
RECURSIVE ParseRank(_, _, _, _, _)
ParseRank(board, text, r, i, file) ==
  IF i > Len(text) THEN board
  ELSE CHOOSE done \in
         {ParseRank(after, rankText, r, next, nextFile) :
            after \in {IF IsNumericChar(text[i]) THEN board
                       ELSE Set(board, r * 8 + file, text[i])},
            rankText \in {text},
            next \in {i + 1},
            nextFile \in {IF IsNumericChar(text[i])
                            THEN file + IndexOf(DIGITS, text[i])
                            ELSE file + 1}} : TRUE

\* the outer loop of fenToState, r = 0..7 over ranks[7 - r]; iterating an
\* undefined rank throws
RECURSIVE ParseRanks(_, _, _)
ParseRanks(board, ranks, r) ==
  IF r = 8 THEN [threw |-> FALSE, board |-> board]
  ELSE IF Field(ranks, 7 - r) = Undefined THEN [threw |-> TRUE, board |-> board]
  ELSE CHOOSE done \in
         {ParseRanks(after, parts, next) :
            after \in {ParseRank(board, ranks[7 - r + 1], r, 1, 0)},
            parts \in {ranks},
            next \in {r + 1}} : TRUE

HasChar(s, c) == s # Undefined /\ IndexOf(s, c) >= 0

\* fenToState(fen): threw is TRUE when the call ends in a TypeError, else
\* state is the Position returned
fenToState(fen) ==
  LET fields == Split(fen, " ")
      boardPart == Field(fields, 0)
      turn == Field(fields, 1)
      castlingPart == Field(fields, 2)
      epPart == Field(fields, 3)
      halfmove == Field(fields, 4)
      fullmove == Field(fields, 5)
      parsed == ParseRanks(EmptyBoard, Split(boardPart, "/"), 0)
      useCastling == castlingPart # Undefined /\ castlingPart # <<>> /\ castlingPart # <<"-">>
      castling == [c \in {"K", "Q", "k", "q"} |-> useCastling /\ HasChar(castlingPart, c)]
      Truthy(s) == s # Undefined /\ s # <<>>
  IN IF parsed.threw \/ epPart = Undefined
       THEN [threw |-> TRUE]
       ELSE [threw |-> FALSE,
             state |-> [board |-> parsed.board,
                        whiteToMove |-> (turn = <<"w">>),
                        castling |-> castling,
                        enPassant |-> IF epPart = <<"-">> THEN -1 ELSE squareToIndex(epPart),
                        halfmove |-> ParseInt(IF Truthy(halfmove) THEN halfmove ELSE <<"0">>),
                        fullmove |-> ParseInt(IF Truthy(fullmove) THEN fullmove ELSE <<"1">>)]]

\* the inner loop of generateFEN over f = 0..7 for rank r, with the count
\* of empty squares written after the loop
RECURSIVE FenBoard(_, _, _, _)
FenBoard(board, r, f, empty) ==
  IF f = 8
    THEN (IF empty > 0 THEN NumToString(empty) ELSE <<>>)
  ELSE LET piece == Get(board, r * 8 + f)
       IN IF piece # Null
            THEN (IF empty > 0 THEN NumToString(empty) ELSE <<>>)
                 \o <<piece>> \o FenBoard(board, r, f + 1, 0)
            ELSE FenBoard(board, r, f + 1, empty + 1)

\* the outer loop of generateFEN over r = 7..0, from rank r on
RECURSIVE FenRanks(_, _)
FenRanks(board, r) ==
  FenBoard(board, r, 0, 0)
    \o (IF r # 0 THEN <<"/">> \o FenRanks(board, r - 1) ELSE <<>>)

generateFEN(state) ==
  LET boardPart == FenRanks(state.board, 7)
      turn == IF state.whiteToMove THEN <<"w">> ELSE <<"b">>
      rights == SelectSeq(<<"K", "Q", "k", "q">>, LAMBDA c : state.castling[c])
      castlingRights == IF rights = <<>> THEN <<"-">> ELSE rights
      ep == IF state.enPassant = -1 THEN <<"-">> ELSE indexToSquare(state.enPassant)
  IN boardPart \o <<" ">> \o turn \o <<" ">> \o castlingRights \o <<" ">> \o ep
     \o <<" ">> \o NumToString(state.halfmove) \o <<" ">> \o NumToString(state.fullmove)

cloneState(state) == state


\* ------------------------------------------------------------------------
\* AttackDetector
\* ------------------------------------------------------------------------

pieceColor(piece) ==
  IF piece = Null THEN Null
  ELSE IF piece = ToUpperCase(piece) THEN "w" ELSE "b"

inBounds(idx) == idx >= 0 /\ idx < 64

OnBoard(f, r) == f >= 0 /\ f < 8 /\ r >= 0 /\ r < 8

\* the while loop of a ray walk: the first piece met from (f, r) in steps of
\* (stepFile, stepRank), Null when the ray leaves the board first
RECURSIVE FirstOnRay(_, _, _, _, _)
FirstOnRay(board, f, r, stepFile, stepRank) ==
  IF ~OnBoard(f, r) THEN Null
  ELSE IF Get(board, r * 8 + f) # Null THEN Get(board, r * 8 + f)
  ELSE CHOOSE met \in
         {FirstOnRay(board, nextFile, nextRank, stepFile, stepRank) :
            nextFile \in {f + stepFile}, nextRank \in {r + stepRank}} : TRUE

BishopStepFile(delta) == IF delta = 9 \/ delta = -7 THEN 1 ELSE -1
BishopStepRank(delta) == IF delta > 0 THEN 1 ELSE -1
RookStepFile(delta) == IF delta = 1 THEN 1 ELSE IF delta = -1 THEN -1 ELSE 0
RookStepRank(delta) == IF delta = 8 THEN 1 ELSE IF delta = -8 THEN -1 ELSE 0

PawnAttacks(board, squareIdx, byWhite) ==
  LET dir == IF byWhite THEN 1 ELSE -1
      file == Rem8(squareIdx)
      rank == Floor8(squareIdx)
  IN \E df \in {-1, 1} :
       LET tFile == file + df
           tRank == rank - dir
       IN /\ OnBoard(tFile, tRank)
          /\ Get(board, tRank * 8 + tFile) = (IF byWhite THEN "P" ELSE "p")

\* KnightAttacks without the file distance test of lines 126-127
KnightAttacksWrapping(board, squareIdx, byWhite) ==
  \E k \in 1..Len(KNIGHT_DELTAS) :
    LET target == squareIdx + KNIGHT_DELTAS[k]
    IN /\ inBounds(target)
       /\ Get(board, target) = (IF byWhite THEN "N" ELSE "n")

KnightAttacks(board, squareIdx, byWhite) ==
  LET file == Rem8(squareIdx)
  IN \E k \in 1..Len(KNIGHT_DELTAS) :
       LET target == squareIdx + KNIGHT_DELTAS[k]
       IN /\ inBounds(target)
          /\ Abs(Rem8(target) - file) <= 2
          /\ Get(board, target) = (IF byWhite THEN "N" ELSE "n")

BishopAttacks(board, squareIdx, byWhite) ==
  LET file == Rem8(squareIdx)
      rank == Floor8(squareIdx)
  IN \E k \in 1..Len(BISHOP_DELTAS) :
       LET sf == BishopStepFile(BISHOP_DELTAS[k])
           sr == BishopStepRank(BISHOP_DELTAS[k])
       IN \E piece \in {FirstOnRay(board, file + sf, rank + sr, sf, sr)} :
            IF byWhite THEN piece = "B" \/ piece = "Q" ELSE piece = "b" \/ piece = "q"

RookAttacks(board, squareIdx, byWhite) ==
  LET file == Rem8(squareIdx)
      rank == Floor8(squareIdx)
  IN \E k \in 1..Len(ROOK_DELTAS) :
       LET sf == RookStepFile(ROOK_DELTAS[k])
           sr == RookStepRank(ROOK_DELTAS[k])
       IN \E piece \in {FirstOnRay(board, file + sf, rank + sr, sf, sr)} :
            IF byWhite THEN piece = "R" \/ piece = "Q" ELSE piece = "r" \/ piece = "q"

KingAttacks(board, squareIdx, byWhite) ==
  LET file == Rem8(squareIdx)
      rank == Floor8(squareIdx)
  IN \E dr \in -1..1, df \in -1..1 :
       /\ ~(dr = 0 /\ df = 0)
       /\ OnBoard(file + df, rank + dr)
       /\ Get(board, (rank + dr) * 8 + file + df) = (IF byWhite THEN "K" ELSE "k")

isSquareAttacked(state, squareIdx, byWhite) ==
  \/ PawnAttacks(state.board, squareIdx, byWhite)
  \/ KnightAttacks(state.board, squareIdx, byWhite)
  \/ BishopAttacks(state.board, squareIdx, byWhite)
  \/ RookAttacks(state.board, squareIdx, byWhite)
  \/ KingAttacks(state.board, squareIdx, byWhite)

\* findKing, line 221: the first of the squares lo..hi that holds target,
\* -1 if none does
RECURSIVE FindFrom(_, _, _, _)
FindFrom(board, target, lo, hi) ==
  IF lo = hi
    THEN (IF Get(board, lo) = target THEN lo ELSE -1)
    ELSE CHOOSE r \in
           {IF first # -1 THEN first
              ELSE FindFrom(board, target, (lo + hi) \div 2 + 1, hi) :
              first \in {FindFrom(board, target, lo, (lo + hi) \div 2)}} : TRUE

findKing(state, white) == FindFrom(state.board, IF white THEN "K" ELSE "k", 0, 63)

\* ------------------------------------------------------------------------
\* MoveApplier
\* ------------------------------------------------------------------------

\* a Move object; a property the code leaves out is Null
Move(from, to, piece, capture, promotion, flag, castle) ==
  [from |-> from, to |-> to, piece |-> piece, capture |-> capture,
   promotion |-> promotion, flag |-> flag, castle |-> castle]

\* makeMove, lines 356-359: the square an en-passant capture empties
MakeCapIdx(whiteToMove, to) == IF whiteToMove THEN to - 8 ELSE to + 8

\* makeMove, lines 375-392: the rook's relocation of a castle move
CastleRook(board, move) ==
  IF move.flag # "castle" THEN board
  ELSE CASE move.castle = "K" -> Set(Set(board, F1, "R"), H1, Null)
         [] move.castle = "Q" -> Set(Set(board, D1, "R"), A1, Null)
         [] move.castle = "k" -> Set(Set(board, F8, "r"), H8, Null)
         [] move.castle = "q" -> Set(Set(board, D8, "r"), A8, Null)
         [] OTHER -> board

\* CastlingAfter without the rook home squares of lines 370-373
CastlingAfterKingOnly(castling, move) ==
  [c \in {"K", "Q", "k", "q"} |->
     castling[c]
     /\ ~(move.piece = "K" /\ c \in {"K", "Q"})
     /\ ~(move.piece = "k" /\ c \in {"k", "q"})]

\* makeMove, lines 367-373: the castling flags after the move
CastlingAfter(castling, move) ==
  [c \in {"K", "Q", "k", "q"} |->
     castling[c]
     /\ ~(move.piece = "K" /\ c \in {"K", "Q"})
     /\ ~(move.piece = "k" /\ c \in {"k", "q"})
     /\ ~(c = "Q" /\ (move.from = A1 \/ move.to = A1))
     /\ ~(c = "K" /\ (move.from = H1 \/ move.to = H1))
     /\ ~(c = "q" /\ (move.from = A8 \/ move.to = A8))
     /\ ~(c = "k" /\ (move.from = H8 \/ move.to = H8))]

\* makeMove, lines 354-363: the halfmove clock after the move
HalfmoveAfter(halfmove, move) ==
  LET movingPiece == IF move.promotion # Null THEN move.promotion ELSE move.piece
  IN IF move.capture # Null THEN 0
     ELSE IF ToLowerCase(movingPiece) = "p" THEN 0
     ELSE halfmove + 1

\* makeMove, lines 393-394: the fullmove counter, given the side to move
\* after the flip
FullmoveAfter(fullmove, whiteToMoveNow) ==
  IF ~whiteToMoveNow THEN fullmove + 1 ELSE fullmove

\* EnPassantAfter with the skipped square taken on the far side of the
\* destination
EnPassantAfterFarSide(whiteToMove, move) ==
  IF move.flag = "double"
    THEN (IF whiteToMove THEN move.to + 8 ELSE move.to - 8)
    ELSE -1

\* makeMove, lines 353 and 364-366: the en-passant target after the move,
\* given the side that moves
EnPassantAfter(whiteToMove, move) ==
  IF move.flag = "double"
    THEN (IF whiteToMove THEN move.to - 8 ELSE move.to + 8)
    ELSE -1

\* makeMove(state, move): the mutated state and the undo record returned
makeMove(state, move) ==
  LET undo == [move |-> move,
               captured |-> move.capture,
               enPassant |-> state.enPassant,
               castling |-> state.castling,
               halfmove |-> state.halfmove,
               fullmove |-> state.fullmove]
      movingPiece == IF move.promotion # Null THEN move.promotion ELSE move.piece
      b1 == IF move.flag = "enpassant"
              THEN Set(state.board, MakeCapIdx(state.whiteToMove, move.to), Null)
              ELSE state.board
      b2 == Set(Set(b1, move.to, movingPiece), move.from, Null)
  IN [state |-> [board |-> CastleRook(b2, move),
                 whiteToMove |-> ~state.whiteToMove,
                 castling |-> CastlingAfter(state.castling, move),
                 enPassant |-> EnPassantAfter(state.whiteToMove, move),
                 halfmove |-> HalfmoveAfter(state.halfmove, move),
                 fullmove |-> FullmoveAfter(state.fullmove, ~state.whiteToMove)],
      undo |-> undo]

\* undoMove, lines 410-412: the square where an en-passant capture's pawn is
\* put back, given the side to move after the flip back
UndoCapIdx(whiteToMove, to) == IF whiteToMove THEN to + 8 ELSE to - 8

\* undoMove, lines 413-430
UncastleRook(board, move) ==
  IF move.flag # "castle" THEN board
  ELSE CASE move.castle = "K" -> Set(Set(board, H1, "R"), F1, Null)
         [] move.castle = "Q" -> Set(Set(board, A1, "R"), D1, Null)
         [] move.castle = "k" -> Set(Set(board, H8, "r"), F8, Null)
         [] move.castle = "q" -> Set(Set(board, A8, "r"), D8, Null)
         [] OTHER -> board

\* undoMove(state, undo): the mutated state
undoMove(state, undo) ==
  LET move == undo.move
      whiteToMove == ~state.whiteToMove
      b1 == Set(Set(state.board, move.from, move.piece), move.to, Null)
      b2 == IF move.flag = "enpassant"
              THEN Set(b1, UndoCapIdx(whiteToMove, move.to), undo.captured)
              ELSE UncastleRook(b1, move)
      b3 == IF move.capture # Null /\ move.flag # "enpassant"
              THEN Set(b2, move.to, undo.captured)
              ELSE b2
  IN [board |-> b3,
      whiteToMove |-> whiteToMove,
      castling |-> undo.castling,
      enPassant |-> undo.enPassant,
      halfmove |-> undo.halfmove,
      fullmove |-> IF whiteToMove THEN state.fullmove - 1 ELSE state.fullmove]

\* ------------------------------------------------------------------------
\* MoveGenerator
\* ------------------------------------------------------------------------

\* addPawnMove: the moves pushed for one pawn push or capture
addPawnMove(from, to, piece, promotion, capture) ==
  IF promotion
    THEN [k \in 1..4 |->
            LET promo == <<"q", "r", "b", "n">>[k]
                promoPiece == IF piece = "P" THEN ToUpperCase(promo) ELSE promo
            IN Move(from, to, piece, capture, promoPiece, "promotion", Null)]
    ELSE <<Move(from, to, piece, capture, Null, Null, Null)>>

\* generatePawnMoves, line 233: whether the pawn's moves are promotions
IsPromotion(rank, promotionRank) == rank + 1 = promotionRank

\* generatePawnMoves, lines 239-250: the moves of one capture direction df
PawnCaptures(state, idx, piece, df) ==
  LET white == piece = "P"
      dir == IF white THEN 8 ELSE -8
      promotionRank == IF white THEN 7 ELSE 0
      rank == Floor8(idx)
      file == Rem8(idx) + df
      target == idx + dir + df
      targetPiece == Get(state.board, target)
  IN IF file < 0 \/ file > 7 THEN <<>>
     ELSE (IF targetPiece # Null /\ pieceColor(targetPiece) # pieceColor(piece)
             THEN addPawnMove(idx, target, piece, IsPromotion(rank, promotionRank), targetPiece)
             ELSE <<>>)
          \o (IF target = state.enPassant
                THEN <<Move(idx, target, piece, IF white THEN "p" ELSE "P", Null, "enpassant", Null)>>
                ELSE <<>>)

generatePawnMoves(state, idx, piece) ==
  LET white == piece = "P"
      dir == IF white THEN 8 ELSE -8
      startRank == IF white THEN 1 ELSE 6
      promotionRank == IF white THEN 7 ELSE 0
      rank == Floor8(idx)
      forward == idx + dir
      doubleForward == idx + dir * 2
  IN (IF inBounds(forward) /\ Get(state.board, forward) = Null
        THEN addPawnMove(idx, forward, piece, IsPromotion(rank, promotionRank), Null)
             \o (IF rank = startRank /\ Get(state.board, doubleForward) = Null
                   THEN <<Move(idx, doubleForward, piece, Null, Null, "double", Null)>>
                   ELSE <<>>)
        ELSE <<>>)
     \o PawnCaptures(state, idx, piece, -1)
     \o PawnCaptures(state, idx, piece, 1)

\* generateJumpMoves, line 269: the edge test of a jump to target
JumpWithinEdges(idx, target) == Abs(Rem8(target) - Rem8(idx)) <= 2

RECURSIVE JumpMovesFrom(_, _, _, _, _)
JumpMovesFrom(state, idx, piece, deltas, k) ==
  IF k > Len(deltas) THEN <<>>
  ELSE LET target == idx + deltas[k]
           targetPiece == Get(state.board, target)
       IN (IF /\ inBounds(target)
              /\ JumpWithinEdges(idx, target)
              /\ (targetPiece = Null \/ pieceColor(targetPiece) # pieceColor(piece))
             THEN <<Move(idx, target, piece, targetPiece, Null, Null, Null)>>
             ELSE <<>>)
          \o JumpMovesFrom(state, idx, piece, deltas, k + 1)

generateJumpMoves(state, idx, piece, deltas) == JumpMovesFrom(state, idx, piece, deltas, 1)

SlideStepFile(delta) ==
  IF delta = 1 THEN 1
  ELSE IF delta = -1 THEN -1
  ELSE IF delta = 9 \/ delta = -7 THEN 1
  ELSE IF delta = -9 \/ delta = 7 THEN -1
  ELSE 0

SlideStepRank(delta) ==
  IF delta = 8 \/ delta = 9 \/ delta = 7 THEN 1
  ELSE IF delta = -8 \/ delta = -9 \/ delta = -7 THEN -1
  ELSE 0

\* the while loop of generateSlideMoves along one ray
RECURSIVE SlideRay(_, _, _, _, _, _, _)
SlideRay(state, idx, piece, f, r, stepFile, stepRank) ==
  IF ~OnBoard(f, r) THEN <<>>
  ELSE LET target == r * 8 + f
           targetPiece == Get(state.board, target)
       IN IF targetPiece = Null
            THEN <<Move(idx, target, piece, Null, Null, Null, Null)>>
                 \o SlideRay(state, idx, piece, f + stepFile, r + stepRank, stepFile, stepRank)
            ELSE IF pieceColor(targetPiece) # pieceColor(piece)
              THEN <<Move(idx, target, piece, targetPiece, Null, Null, Null)>>
              ELSE <<>>

RECURSIVE SlideMovesFrom(_, _, _, _, _)
SlideMovesFrom(state, idx, piece, deltas, k) ==
  IF k > Len(deltas) THEN <<>>
  ELSE LET sf == SlideStepFile(deltas[k])
           sr == SlideStepRank(deltas[k])
       IN SlideRay(state, idx, piece, Rem8(idx) + sf, Floor8(idx) + sr, sf, sr)
          \o SlideMovesFrom(state, idx, piece, deltas, k + 1)

generateSlideMoves(state, idx, piece, deltas) == SlideMovesFrom(state, idx, piece, deltas, 1)

\* generateKingMoves, lines 303-315: the steps to the adjacent squares, dr
\* outer and df inner, both from -1 to 1
RECURSIVE KingSteps(_, _, _, _)
KingSteps(state, idx, piece, n) ==
  IF n > 8 THEN <<>>
  ELSE LET dr == (n \div 3) - 1
           df == (n % 3) - 1
           file == Rem8(idx) + df
           rank == Floor8(idx) + dr
           target == rank * 8 + file
           targetPiece == Get(state.board, target)
       IN (IF /\ ~(dr = 0 /\ df = 0)
              /\ OnBoard(file, rank)
              /\ (targetPiece = Null \/ pieceColor(targetPiece) # pieceColor(piece))
             THEN <<Move(idx, target, piece, targetPiece, Null, Null, Null)>>
             ELSE <<>>)
          \o KingSteps(state, idx, piece, n + 1)

\* generateKingMoves, lines 319-328 and 331-340: one castle, with the squares
\* that must be empty and the squares that must not be attacked
\* CastleMove without the attack tests on the king's squares
CastleMoveUnsafe(state, idx, piece, right, to, empties, safe) ==
  IF /\ state.castling[right]
     /\ \A sq \in empties : Get(state.board, sq) = Null
    THEN <<Move(idx, to, piece, Null, Null, "castle", right)>>
    ELSE <<>>

CastleMove(state, idx, piece, right, to, empties, safe) ==
  IF /\ state.castling[right]
     /\ \A sq \in empties : Get(state.board, sq) = Null
     /\ \A sq \in safe : ~isSquareAttacked(state, sq, piece # "K")
    THEN <<Move(idx, to, piece, Null, Null, "castle", right)>>
    ELSE <<>>

generateKingMoves(state, idx, piece) ==
  LET white == piece = "K"
  IN KingSteps(state, idx, piece, 0)
     \o (IF white /\ idx = E1
           THEN CastleMove(state, idx, piece, "K", G1, {F1, G1}, {idx, F1, G1})
                \o CastleMove(state, idx, piece, "Q", C1sq, {D1, C1sq, B1}, {idx, D1, C1sq})
           ELSE <<>>)
     \o (IF ~white /\ idx = E8
           THEN CastleMove(state, idx, piece, "k", G8, {F8, G8}, {idx, F8, G8})
                \o CastleMove(state, idx, piece, "q", C8sq, {D8, C8sq, B8}, {idx, D8, C8sq})
           ELSE <<>>)

\* generateMoves, lines 186-205: the moves of the piece on square i
PieceMoves(state, i, piece) ==
  CASE ToLowerCase(piece) = "p" -> generatePawnMoves(state, i, piece)
    [] ToLowerCase(piece) = "n" -> generateJumpMoves(state, i, piece, KNIGHT_DELTAS)
    [] ToLowerCase(piece) = "b" -> generateSlideMoves(state, i, piece, BISHOP_DELTAS)
    [] ToLowerCase(piece) = "r" -> generateSlideMoves(state, i, piece, ROOK_DELTAS)
    [] ToLowerCase(piece) = "q" -> generateSlideMoves(state, i, piece, QUEEN_DELTAS)
    [] ToLowerCase(piece) = "k" -> generateKingMoves(state, i, piece)
    [] OTHER -> <<>>

\* generateMoves, lines 181-206: the pseudo-legal moves of the pieces on
\* the squares lo..hi, in scan order
RECURSIVE PseudoFrom(_, _, _, _)
PseudoFrom(state, side, lo, hi) ==
  IF lo = hi
    THEN LET piece == Get(state.board, lo)
         IN IF piece = Null \/ pieceColor(piece) # side THEN <<>>
            ELSE PieceMoves(state, lo, piece)
    ELSE PseudoFrom(state, side, lo, (lo + hi) \div 2)
         \o PseudoFrom(state, side, (lo + hi) \div 2 + 1, hi)

PseudoLegalMoves(state) ==
  PseudoFrom(state, IF state.whiteToMove THEN "w" ELSE "b", 0, 63)

\* generateMoves, lines 210-213: one pass of the legality filter's loop body;
\* the state after makeMove / undoMove and whether the mover's king was
\* attacked in between
TryMove(state, side, move) ==
  CHOOSE r \in
    {CHOOSE t \in
       {[state |-> undoMove(made.state, made.undo),
         inCheck |-> isSquareAttacked(made.state, kingIdx, ~made.state.whiteToMove)] :
          kingIdx \in {findKing(made.state, side = "w")}} : TRUE :
       made \in {makeMove(state, move)}} : TRUE

\* generateMoves, lines 208-216: the passes of the filter loop for
\* moves[lo..hi] in order; acc is the state the loop mutates and the legal
\* list so far
RECURSIVE FilterFrom(_, _, _, _, _)
FilterFrom(acc, side, moves, lo, hi) ==
  IF lo > hi THEN acc
  ELSE IF lo = hi
    THEN CHOOSE r \in
           {[state |-> tried.state,
             legal |-> IF tried.inCheck THEN acc.legal ELSE Append(acc.legal, moves[lo])] :
              tried \in {TryMove(acc.state, side, moves[lo])}} : TRUE
    ELSE CHOOSE r \in
           {FilterFrom(first, side, moves, (lo + hi) \div 2 + 1, hi) :
              first \in {FilterFrom(acc, side, moves, lo, (lo + hi) \div 2)}} : TRUE

\* generateMoves(state): the list returned and the state the call leaves
generateMoves(state) ==
  CHOOSE r \in
    {FilterFrom([state |-> state, legal |-> <<>>],
                IF state.whiteToMove THEN "w" ELSE "b", moves, 1, Len(moves)) :
       moves \in {PseudoLegalMoves(state)}} : TRUE

\* ------------------------------------------------------------------------
\* Evaluator
\* ------------------------------------------------------------------------

positionalBonus(piece, idx) ==
  LET rank == Floor8(idx)
      file == Rem8(idx)
  IN (IF ToLowerCase(piece) = "p"
        THEN (IF piece = "P" THEN rank * 2 ELSE (7 - rank) * 2)
             + (IF file = 3 \/ file = 4 THEN 2 ELSE 0)
        ELSE 0)
     + (IF ToLowerCase(piece) = "n" /\ file >= 2 /\ file <= 5 /\ rank >= 2 /\ rank <= 5
          THEN 10 ELSE 0)
     + (IF ToLowerCase(piece) = "b" /\ (file + rank) % 2 = 0 THEN 1 ELSE 0)

\* evaluate, lines 438-444: the sum over the squares lo..hi
RECURSIVE EvaluateFrom(_, _, _)
EvaluateFrom(board, lo, hi) ==
  IF lo = hi
    THEN LET piece == Get(board, lo)
         IN IF piece = Null THEN 0
            ELSE (IF piece = ToUpperCase(piece) THEN 1 ELSE -1)
                 * (PieceValue(ToLowerCase(piece)) + positionalBonus(piece, lo))
    ELSE EvaluateFrom(board, lo, (lo + hi) \div 2)
         + EvaluateFrom(board, (lo + hi) \div 2 + 1, hi)

evaluate(state) == EvaluateFrom(state.board, 0, 63)

\* ------------------------------------------------------------------------
\* Position texts the engine is run on
\* ------------------------------------------------------------------------

\* rnbqkbnr/pppppppp/8/8/8/8/PPPPPPPP/RNBQKBNR w KQkq - 0 1
StartFen ==
  <<"r", "n", "b", "q", "k", "b", "n", "r", "/", "p", "p", "p", "p", "p",
    "p", "p", "p", "/", "8", "/", "8", "/", "8", "/", "8", "/", "P", "P",
    "P", "P", "P", "P", "P", "P", "/", "R", "N", "B", "Q", "K", "B", "N",
    "R", " ", "w", " ", "K", "Q", "k", "q", " ", "-", " ", "0", " ", "1">>

\* 4k3/8/8/8/8/8/8/4K2R w K - 0 1
CastleFen ==
  <<"4", "k", "3", "/", "8", "/", "8", "/", "8", "/", "8", "/", "8", "/",
    "8", "/", "4", "K", "2", "R", " ", "w", " ", "K", " ", "-", " ", "0",
    " ", "1">>

\* 4k3/8/8/8/8/8/8/4K2R w - - 0 1
NoRightFen ==
  <<"4", "k", "3", "/", "8", "/", "8", "/", "8", "/", "8", "/", "8", "/",
    "8", "/", "4", "K", "2", "R", " ", "w", " ", "-", " ", "-", " ", "0",
    " ", "1">>

\* 7k/5Q2/6K1/8/8/8/8/8 b - - 0 1
StalemateFen ==
  <<"7", "k", "/", "5", "Q", "2", "/", "6", "K", "1", "/", "8", "/", "8",
    "/", "8", "/", "8", "/", "8", " ", "b", " ", "-", " ", "-", " ", "0",
    " ", "1">>

\* 4k3/3p4/8/2P1P3/8/8/8/4K3 b - - 0 1
BlackPushFen ==
  <<"4", "k", "3", "/", "3", "p", "4", "/", "8", "/", "2", "P", "1", "P",
    "3", "/", "8", "/", "8", "/", "8", "/", "4", "K", "3", " ", "b", " ",
    "-", " ", "-", " ", "0", " ", "1">>

\* 4k3/8/8/8/2p1p3/8/3P4/4K3 w - - 0 1
WhitePushFen ==
  <<"4", "k", "3", "/", "8", "/", "8", "/", "8", "/", "2", "p", "1", "p",
    "3", "/", "8", "/", "3", "P", "4", "/", "4", "K", "3", " ", "w", " ",
    "-", " ", "-", " ", "0", " ", "1">>

\* 4k3/3p4/8/2P5/8/8/8/3QK3 b - - 0 1
GuardedPushFen ==
  <<"4", "k", "3", "/", "3", "p", "4", "/", "8", "/", "2", "P", "5", "/",
    "8", "/", "8", "/", "8", "/", "3", "Q", "K", "3", " ", "b", " ", "-",
    " ", "-", " ", "0", " ", "1">>

\* 1n2k3/P7/8/8/8/8/p7/1N2K3 w - - 0 1
WhitePromoFen ==
  <<"1", "n", "2", "k", "3", "/", "P", "7", "/", "8", "/", "8", "/", "8",
    "/", "8", "/", "p", "7", "/", "1", "N", "2", "K", "3", " ", "w", " ",
    "-", " ", "-", " ", "0", " ", "1">>

\* 1n2k3/P7/8/8/8/8/p7/1N2K3 b - - 0 1
BlackPromoFen ==
  <<"1", "n", "2", "k", "3", "/", "P", "7", "/", "8", "/", "8", "/", "8",
    "/", "8", "/", "p", "7", "/", "1", "N", "2", "K", "3", " ", "b", " ",
    "-", " ", "-", " ", "0", " ", "1">>

\* r2N3k/p5pp/p6N/8/8/8/8/7K w - - 0 1
TwoMatesFen ==
  <<"r", "2", "N", "3", "k", "/", "p", "5", "p", "p", "/", "p", "6", "N",
    "/", "8", "/", "8", "/", "8", "/", "8", "/", "7", "K", " ", "w", " ",
    "-", " ", "-", " ", "0", " ", "1">>

\* 4k3/8/8/2Pp4/8/8/8/4K3 w - d6 0 2
EnPassantFen ==
  <<"4", "k", "3", "/", "8", "/", "8", "/", "2", "P", "p", "4", "/", "8",
    "/", "8", "/", "8", "/", "4", "K", "3", " ", "w", " ", "-", " ", "d",
    "6", " ", "0", " ", "2">>

\* R6k/8/8/8/8/8/8/7K b - - 0 1
RookCheckFen ==
  <<"R", "6", "k", "/", "8", "/", "8", "/", "8", "/", "8", "/", "8", "/",
    "8", "/", "7", "K", " ", "b", " ", "-", " ", "-", " ", "0", " ", "1">>

\* r3k2r/8/8/8/8/8/8/R3K2R w KQkq - 0 1
CastleBothFen ==
  <<"r", "3", "k", "2", "r", "/", "8", "/", "8", "/", "8", "/", "8", "/",
    "8", "/", "8", "/", "R", "3", "K", "2", "R", " ", "w", " ", "K", "Q",
    "k", "q", " ", "-", " ", "0", " ", "1">>

\* 4kr2/8/8/8/8/8/8/4K2R w K - 0 1
TransitAttackedFen ==
  <<"4", "k", "r", "2", "/", "8", "/", "8", "/", "8", "/", "8", "/", "8",
    "/", "8", "/", "4", "K", "2", "R", " ", "w", " ", "K", " ", "-", " ",
    "0", " ", "1">>

\* 1r2k3/8/8/8/8/8/8/R3K3 w Q - 0 1
QueenSideFen ==
  <<"1", "r", "2", "k", "3", "/", "8", "/", "8", "/", "8", "/", "8", "/",
    "8", "/", "8", "/", "R", "3", "K", "3", " ", "w", " ", "Q", " ", "-",
    " ", "0", " ", "1">>

\* n3k2n/7p/P7/8/8/p7/7P/N3K2N w - - 0 1
EdgeFen ==
  <<"n", "3", "k", "2", "n", "/", "7", "p", "/", "P", "7", "/", "8", "/",
    "8", "/", "p", "7", "/", "7", "P", "/", "N", "3", "K", "2", "N", " ",
    "w", " ", "-", " ", "-", " ", "0", " ", "1">>

\* 4r1k1/8/8/8/8/8/P7/4KB1R w K - 0 1
KingTakenFen ==
  <<"4", "r", "1", "k", "1", "/", "8", "/", "8", "/", "8", "/", "8", "/",
    "8", "/", "P", "7", "/", "4", "K", "B", "1", "R", " ", "w", " ", "K",
    " ", "-", " ", "0", " ", "1">>

\* the number of moves applied in a row by the play harness
MaxPly == 2

\* the largest search depth requested
MaxDepth == 4

\* ------------------------------------------------------------------------
\* State
\* ------------------------------------------------------------------------

VARIABLES
  state,    \* the Position object the engine mutates in place
  pc,       \* the control point of the run
  legal,    \* the list the last generateMoves call returned
  entry,    \* the Position as it was when generateMoves was last called
  prior,    \* the Position as it was when makeMove was last called
  undo,     \* the undo record the last makeMove call returned
  ply,      \* the number of moves applied since the position was parsed
  stack,    \* the frames of the recursive search, the root first
  result,   \* the value the last search frame returned
  evals,    \* the number of evaluate calls of the search
  mates,    \* the checkmates the search has scored: side mated, ply, score
  text,     \* the position text given to fenToState
  rootDepth, \* the depth given to analyzePosition
  parsed,   \* what fenToState made of text
  written,  \* the text generateFEN wrote for the parsed Position
  reparsed, \* what fenToState made of the written text
  probe,    \* the last isSquareAttacked, generateJumpMoves or
            \* generateKingMoves call on its own: arguments and return value
  page      \* the page script: the observed board element, the observer's
            \* queued records, the timers and the script's variables

vars == <<state, pc, legal, entry, prior, undo, ply, stack, result, evals,
          mates, text, rootDepth, parsed, written, reparsed, probe, page>>

\* no Move object: the value of a null or undefined move reference
NoMove == Move(Null, Null, Null, Null, Null, Null, Null)

NoUndo ==
  [move |-> NoMove, captured |-> Null, enPassant |-> -1,
   castling |-> [c \in {"K", "Q", "k", "q"} |-> FALSE], halfmove |-> 0, fullmove |-> 0]

NoResult == [score |-> 0, move |-> NoMove]

NoParse == [threw |-> FALSE]

NoProbe ==
  [kind |-> "none", squareIdx |-> -1, byWhite |-> FALSE, attacked |-> FALSE,
   moves |-> <<>>]

\* the page script was not started
NoPage ==
  [phase |-> "none", board |-> "absent", overlay |-> FALSE, observing |-> FALSE,
   listening |-> FALSE, records |-> FALSE, timers |-> {}, analyzeTimeout |-> 0,
   initLeft |-> -1, sinceNotify |-> 0, calls |-> 0, burst |-> 0, quiet |-> FALSE]

\* ------------------------------------------------------------------------
\* Play: generateMoves, makeMove and undoMove in the orders the engine
\* calls them (a move is made only from the last generated list; a made
\* move is undone, or followed by the next generateMoves)
\* ------------------------------------------------------------------------

PlaySeeds ==
  {StartFen, CastleFen, NoRightFen, StalemateFen, BlackPushFen, WhitePushFen,
   GuardedPushFen, WhitePromoFen, BlackPromoFen, RookCheckFen, KingTakenFen}

PlayIdle ==
  /\ stack = <<>> /\ result = NoResult /\ evals = 0 /\ mates = {}
  /\ rootDepth = 0
  /\ parsed = NoParse /\ written = <<>> /\ reparsed = NoParse
  /\ probe = NoProbe
  /\ page = NoPage

Init ==
  /\ \E fen \in PlaySeeds :
       /\ text = fen
       /\ state = cloneState(fenToState(fen).state)
  /\ pc = "ready"
  /\ legal = <<>>
  /\ entry = state
  /\ prior = state
  /\ undo = NoUndo
  /\ ply = 0
  /\ PlayIdle

GenerateMoves ==
  /\ pc \in {"ready", "made"}
  /\ ply < MaxPly
  /\ \E gen \in {generateMoves(state)} :
       /\ state' = gen.state
       /\ legal' = gen.legal
  /\ entry' = state
  /\ pc' = "generated"
  /\ UNCHANGED <<probe, page, prior, undo, ply, stack, result, evals, mates, text,
                 rootDepth, parsed, written, reparsed>>

MakeMove ==
  /\ pc = "generated"
  /\ \E k \in 1..Len(legal) :
       \E made \in {makeMove(state, legal[k])} :
         /\ state' = made.state
         /\ undo' = made.undo
  /\ prior' = state
  /\ ply' = ply + 1
  /\ pc' = "made"
  /\ UNCHANGED <<probe, page, legal, entry, stack, result, evals, mates, text, rootDepth,
                 parsed, written, reparsed>>

UndoMove ==
  /\ pc = "made"
  /\ state' = undoMove(state, undo)
  /\ pc' = "undone"
  /\ UNCHANGED <<probe, page, legal, entry, prior, undo, ply, stack, result, evals, mates,
                 text, rootDepth, parsed, written, reparsed>>

Next == GenerateMoves \/ MakeMove \/ UndoMove

Spec == Init /\ [][Next]_vars

\* ------------------------------------------------------------------------
\* Properties of move generation and of makeMove / undoMove
\* ------------------------------------------------------------------------

Squares == 0..63

OneKingEach(p) ==
  /\ Cardinality({i \in Squares : Get(p.board, i) = "K"}) = 1
  /\ Cardinality({i \in Squares : Get(p.board, i) = "k"}) = 1

\* after move m is applied to position p, the king of the side that moved
\* stands on a square attacked by the other side
LeavesKingAttacked(p, m) ==
  LET after == makeMove(p, m).state
  IN isSquareAttacked(after, findKing(after, p.whiteToMove), ~p.whiteToMove)

SamePosition(p, q) ==
  /\ \A i \in Squares : Get(p.board, i) = Get(q.board, i)
  /\ p.whiteToMove = q.whiteToMove
  /\ p.castling = q.castling
  /\ p.enPassant = q.enPassant
  /\ p.halfmove = q.halfmove
  /\ p.fullmove = q.fullmove

\* C1: no move returned by generateMoves, for a position with one king per
\* colour, leaves the mover's own king on a square the opponent attacks.
C1_ReturnedMovesKeepKingSafe ==
  (pc = "generated" /\ OneKingEach(entry))
    => \A k \in 1..Len(legal) : ~LeavesKingAttacked(entry, legal[k])

\* C2: makeMove of a returned move followed by undoMove leaves the Position
\* as it was: the 64 squares, the side to move, the castling flags, the
\* en-passant target, the halfmove clock and the fullmove counter.
C2_UndoRestoresPosition ==
  pc = "undone" => SamePosition(state, prior)

IsCastleE1G1(m) == m.flag = "castle" /\ m.from = E1 /\ m.to = G1

\* C4: for 4k3/8/8/8/8/8/8/4K2R w K - 0 1 the returned list holds the castle
\* e1-g1, and with the castling field "-" it holds no castle.
C4_CastleListedWithRightOnly ==
  (pc = "generated" /\ ply = 0)
    => /\ text = CastleFen => \E k \in 1..Len(legal) : IsCastleE1G1(legal[k])
       /\ text = NoRightFen => \A k \in 1..Len(legal) : legal[k].flag # "castle"

PromotionPieces(piece) ==
  IF piece = "P" THEN {"Q", "R", "B", "N"} ELSE {"q", "r", "b", "n"}

\* the moves of list ms from one square to another
MovesTo(ms, from, to) == {k \in 1..Len(ms) : ms[k].from = from /\ ms[k].to = to}

\* C6: a pawn's push or capture onto the last rank (rank 8 for White, rank 1
\* for Black) is generated as exactly four moves, one per promotion piece
\* of its colour, never as a move without a promotion piece.
C6_LastRankMovesAreFourPromotions ==
  \A idx \in Squares :
    LET piece == Get(state.board, idx)
        ms == generatePawnMoves(state, idx, piece)
        lastRank == IF piece = "P" THEN 7 ELSE 0
    IN (piece \in {"P", "p"} /\ pieceColor(piece) = (IF state.whiteToMove THEN "w" ELSE "b"))
         => \A k \in 1..Len(ms) :
              (inBounds(ms[k].to) /\ Floor8(ms[k].to) = lastRank)
                => /\ ms[k].promotion # Null
                   /\ Cardinality(MovesTo(ms, idx, ms[k].to)) = 4
                   /\ {ms[j].promotion : j \in MovesTo(ms, idx, ms[k].to)} = PromotionPieces(piece)

\* the en-passant capture by the pawn on square from, for position p
EnPassantCapture(p, from) ==
  Move(from, p.enPassant, IF p.whiteToMove THEN "P" ELSE "p",
       IF p.whiteToMove THEN "p" ELSE "P", Null, "enpassant", Null)

\* the squares beside square sq on its rank
Beside(sq) == {t \in {sq - 1, sq + 1} : inBounds(t) /\ Floor8(t) = Floor8(sq)}

\* C7: right after a double push that lands beside a pawn of the side to
\* move, generateMoves returns that pawn's en-passant capture onto the square
\* passed over (unless it would leave the mover's king attacked), and
\* makeMove of the capture empties the pushed pawn's square, which is not
\* the destination, and puts the capturing pawn on the destination.
C7_EnPassantAfterDoublePush ==
  (pc = "generated" /\ ply >= 1 /\ undo.move.flag = "double")
    => \A from \in Beside(undo.move.to) :
         Get(entry.board, from) = (IF entry.whiteToMove THEN "P" ELSE "p")
           => LET m == EnPassantCapture(entry, from)
                  after == makeMove(entry, m).state
              IN /\ 2 * entry.enPassant = undo.move.from + undo.move.to
                 /\ LeavesKingAttacked(entry, m) \/ (\E k \in 1..Len(legal) : legal[k] = m)
                 /\ undo.move.to # m.to
                 /\ Get(after.board, undo.move.to) = Null
                 /\ Get(after.board, m.to) = m.piece

C15_FullmoveGrowsAfterBlack ==
  pc = "made"
    => state.fullmove = prior.fullmove + (IF prior.whiteToMove THEN 0 ELSE 1)

\* C16: after makeMove the halfmove clock is 0 if the move is a pawn's
\* (push, double push, capture, en-passant capture, promotion) or captures a
\* piece, and the clock before plus one otherwise.
C16_HalfmoveResetsOnPawnOrCapture ==
  pc = "made"
    => state.halfmove =
         (IF undo.move.piece \in {"P", "p"} \/ undo.move.capture # Null
            THEN 0 ELSE prior.halfmove + 1)

\* move m is a pawn's push over two ranks
IsDoublePush(m) ==
  m.piece \in {"P", "p"} /\ (m.to - m.from = 16 \/ m.from - m.to = 16)

\* C17: after makeMove the en-passant target is the square the pawn passed
\* over when the move is a double pawn push, and -1 for every other move,
\* whatever the target was before.
C17_EnPassantTargetAfterMove ==
  pc = "made"
    => state.enPassant =
         (IF IsDoublePush(undo.move)
            THEN (undo.move.from + undo.move.to) \div 2 ELSE -1)

\* a double push has just been applied
C17_DoublePushMade ==
  pc = "made" /\ IsDoublePush(undo.move) /\ state.enPassant # -1

\* the corner square (a1 = 0, h1 = 7, a8 = 56, h8 = 63) tied to castling
\* flag c
CornerOf(c) ==
  CASE c = "Q" -> 0 [] c = "K" -> 7 [] c = "q" -> 56 [] c = "k" -> 63

\* move m makes flag c false: a move of that colour's king, or a move from
\* or to the flag's corner
ClearsFlag(m, c) ==
  \/ m.piece = "K" /\ c \in {"K", "Q"}
  \/ m.piece = "k" /\ c \in {"k", "q"}
  \/ m.from = CornerOf(c)
  \/ m.to = CornerOf(c)

\* C18: after makeMove a castling flag is false if the move is of that
\* colour's king or has the flag's rook home square as source or
\* destination; every other flag keeps its value; no flag turns from false
\* to true.
C18_CastlingFlagsAfterMove ==
  pc = "made"
    => \A c \in {"K", "Q", "k", "q"} :
         /\ ClearsFlag(undo.move, c) => ~state.castling[c]
         /\ ~ClearsFlag(undo.move, c) => state.castling[c] = prior.castling[c]
         /\ state.castling[c] => prior.castling[c]

\* a move from a rook home square has just been applied while that corner's
\* flag was set
C18_RookLeftCornerWithFlag ==
  /\ pc = "made"
  /\ \E c \in {"K", "Q", "k", "q"} :
       /\ prior.castling[c]
       /\ undo.move.from = CornerOf(c)
       /\ undo.move.piece \notin {"K", "k"}

\* C22: generateMoves leaves state as it was: board, side to move, castling
\* flags, en-passant target, halfmove clock and fullmove counter are, when
\* it returns, what they were at the call.
C22_GenerateMovesLeavesState ==
  pc = "generated" => SamePosition(state, entry)

\* the number of pieces on a board
PieceCount(board) == Cardinality({i \in Squares : Get(board, i) # Null})

\* the king's home square of castling flag c (e1 = 4, e8 = 60)
KingHomeOf(c) == IF c \in {"K", "Q"} THEN 4 ELSE 60

SearchSeeds == {StartFen, StalemateFen, TwoMatesFen, EnPassantFen}

\* entered is the Position as it was when the call was entered, scores the
\* scores the recursive calls of the loop have returned so far, makes and
\* undos the numbers of makeMove and undoMove calls of the frame so far
Frame(depth, alpha, beta, entered) ==
  [depth |-> depth, alpha |-> alpha, beta |-> beta, at |-> "entry",
   white |-> FALSE, moves |-> <<>>, k |-> 0, bestScore |-> 0, bestMove |-> NoMove,
   undo |-> NoUndo, entered |-> entered, scores |-> <<>>,
   makes |-> 0, undos |-> 0]

Top == stack[Len(stack)]

Pop == SubSeq(stack, 1, Len(stack) - 1)

ReplaceTop(f) == [stack EXCEPT ![Len(stack)] = f]

SearchIdle ==
  /\ legal = <<>> /\ undo = NoUndo /\ ply = 0
  /\ parsed = NoParse /\ written = <<>> /\ reparsed = NoParse
  /\ probe = NoProbe
  /\ page = NoPage

\* analyzePosition, lines 511-514
SearchInit ==
  /\ \E fen \in SearchSeeds, depth \in 1..MaxDepth :
       /\ text = fen
       /\ state = cloneState(fenToState(fen).state)
       /\ stack = <<Frame(depth, NegInf, PosInf, cloneState(fenToState(fen).state))>>
       /\ rootDepth = depth
  /\ pc = "searching"
  /\ entry = state
  /\ prior = state
  /\ result = NoResult
  /\ evals = 0
  /\ mates = {}
  /\ SearchIdle

\* search, lines 473-476: the score of a position without legal moves
MateScore(whiteToMove, depth) ==
  IF whiteToMove THEN -100000 + depth ELSE 100000 - depth

\* the frame on top returns value v to its caller
Return(v) ==
  /\ result' = v
  /\ stack' = Pop
  /\ pc' = IF Len(stack) = 1 THEN "done" ELSE pc

\* search, lines 466-468
SearchLeaf ==
  /\ pc = "searching"
  /\ Top.at = "entry"
  /\ Top.depth = 0
  /\ Return([score |-> evaluate(state), move |-> NoMove])
  /\ evals' = evals + 1
  /\ UNCHANGED <<probe, page, state, legal, entry, prior, undo, ply, mates, text,
                 rootDepth, parsed, written, reparsed>>

\* search, lines 469-477: generateMoves returns no move
SearchNoMoves ==
  /\ pc = "searching"
  /\ Top.at = "entry"
  /\ Top.depth # 0
  /\ \E gen \in {generateMoves(state)} :
       /\ Len(gen.legal) = 0
       /\ state' = gen.state
       /\ \E kingIdx \in {findKing(state', state'.whiteToMove)} :
            IF isSquareAttacked(state', kingIdx, ~state'.whiteToMove)
              THEN \E score \in {MateScore(state'.whiteToMove, Top.depth)} :
                     /\ Return([score |-> score, move |-> NoMove])
                     /\ mates' = mates \cup {[white |-> state'.whiteToMove,
                                              ply |-> Len(stack) - 1,
                                              score |-> score]}
              ELSE /\ Return([score |-> 0, move |-> NoMove])
                   /\ mates' = mates
  /\ UNCHANGED <<probe, page, legal, entry, prior, undo, ply, evals, text, rootDepth,
                 parsed, written, reparsed>>

\* search, lines 469-480 and 494: generateMoves returns moves, the loop
\* starts
SearchExpand ==
  /\ pc = "searching"
  /\ Top.at = "entry"
  /\ Top.depth # 0
  /\ \E gen \in {generateMoves(state)} :
       /\ Len(gen.legal) > 0
       /\ state' = gen.state
       /\ stack' = ReplaceTop([Top EXCEPT
                       !.at = "loop",
                       !.white = gen.state.whiteToMove,
                       !.moves = gen.legal,
                       !.k = 1,
                       !.bestScore = IF gen.state.whiteToMove THEN NegInf ELSE PosInf,
                       !.bestMove = NoMove])
  /\ UNCHANGED <<probe, page, pc, legal, entry, prior, undo, ply, result, evals, mates,
                 text, rootDepth, parsed, written, reparsed>>

\* SearchMake with the recursive call given depth in place of depth - 1
SearchMakeSameDepth ==
  /\ pc = "searching"
  /\ Top.at = "loop"
  /\ \E made \in {makeMove(state, Top.moves[Top.k])} :
       /\ state' = made.state
       /\ stack' = Append(ReplaceTop([Top EXCEPT !.at = "called", !.undo = made.undo,
                                                !.makes = @ + 1]),
                          Frame(Top.depth, Top.alpha, Top.beta, made.state))
  /\ UNCHANGED <<probe, page, pc, legal, entry, prior, undo, ply, result, evals, mates,
                 text, rootDepth, parsed, written, reparsed>>

\* search, lines 482-483 and 496-497: makeMove and the recursive call
SearchMake ==
  /\ pc = "searching"
  /\ Top.at = "loop"
  /\ \E made \in {makeMove(state, Top.moves[Top.k])} :
       /\ state' = made.state
       /\ stack' = Append(ReplaceTop([Top EXCEPT !.at = "called", !.undo = made.undo,
                                                !.makes = @ + 1]),
                          Frame(Top.depth - 1, Top.alpha, Top.beta, made.state))
  /\ UNCHANGED <<probe, page, pc, legal, entry, prior, undo, ply, result, evals, mates,
                 text, rootDepth, parsed, written, reparsed>>

\* Scored with "score >= bestScore" and "score <= bestScore" for the strict
\* comparisons of lines 485 and 499: the last of equal scores wins
ScoredLastWins(f, score) ==
  IF f.white
    THEN [f EXCEPT !.bestScore = IF score >= f.bestScore THEN score ELSE @,
                   !.bestMove = IF score >= f.bestScore THEN f.moves[f.k] ELSE @,
                   !.alpha = Max(f.alpha, score)]
    ELSE [f EXCEPT !.bestScore = IF score <= f.bestScore THEN score ELSE @,
                   !.bestMove = IF score <= f.bestScore THEN f.moves[f.k] ELSE @,
                   !.beta = Min(f.beta, score)]

\* search, lines 485-489 and 499-503: the frame after the returned score is
\* taken into account
Scored(f, score) ==
  IF f.white
    THEN [f EXCEPT !.bestScore = IF score > f.bestScore THEN score ELSE @,
                   !.bestMove = IF score > f.bestScore THEN f.moves[f.k] ELSE @,
                   !.alpha = Max(f.alpha, score)]
    ELSE [f EXCEPT !.bestScore = IF score < f.bestScore THEN score ELSE @,
                   !.bestMove = IF score < f.bestScore THEN f.moves[f.k] ELSE @,
                   !.beta = Min(f.beta, score)]

\* Cutoff taken one pawn's value early
CutoffWithMargin(f) == f.beta <= f.alpha + 100

\* search, lines 490 and 504
Cutoff(f) == f.beta <= f.alpha

\* search, lines 484-490 and 498-504: undoMove, the score is kept, the loop
\* goes on with the next move
SearchContinue ==
  /\ pc = "searching"
  /\ Top.at = "called"
  /\ \E f \in {Scored(Top, result.score)} :
       /\ ~Cutoff(f)
       /\ f.k < Len(f.moves)
       /\ stack' = ReplaceTop([f EXCEPT !.at = "loop", !.k = f.k + 1,
                                       !.scores = Append(@, result.score),
                                       !.undos = @ + 1])
  /\ state' = undoMove(state, Top.undo)
  /\ UNCHANGED <<probe, page, pc, legal, entry, prior, undo, ply, result, evals, mates,
                 text, rootDepth, parsed, written, reparsed>>

\* search, lines 490-492 and 504-506: undoMove, the cutoff leaves the loop
SearchCutoff ==
  /\ pc = "searching"
  /\ Top.at = "called"
  /\ \E f \in {Scored(Top, result.score)} :
       /\ Cutoff(f)
       /\ Return([score |-> f.bestScore, move |-> f.bestMove])
  /\ state' = undoMove(state, Top.undo)
  /\ UNCHANGED <<probe, page, legal, entry, prior, undo, ply, evals, mates, text,
                 rootDepth, parsed, written, reparsed>>

\* search, lines 491-492 and 505-506: undoMove, the last move was tried
SearchExhaust ==
  /\ pc = "searching"
  /\ Top.at = "called"
  /\ \E f \in {Scored(Top, result.score)} :
       /\ ~Cutoff(f)
       /\ f.k = Len(f.moves)
       /\ Return([score |-> f.bestScore, move |-> f.bestMove])
  /\ state' = undoMove(state, Top.undo)
  /\ UNCHANGED <<probe, page, legal, entry, prior, undo, ply, evals, mates, text,
                 rootDepth, parsed, written, reparsed>>

SearchNext ==
  \/ SearchLeaf
  \/ SearchNoMoves
  \/ SearchExpand
  \/ SearchMake
  \/ SearchContinue
  \/ SearchCutoff
  \/ SearchExhaust

SpecSearch == SearchInit /\ [][SearchNext]_vars

\* the deepest call whose run to the end is followed step by step
MaxFairDepth == 3

\* analyzePosition, lines 511-514, with a depth up to MaxFairDepth
SearchInitFair == SearchInit /\ rootDepth <= MaxFairDepth

\* the engine runs a call of search to its end: a single-threaded script
\* takes its next step whenever it has one
SpecSearchFair == SearchInitFair /\ [][SearchNext]_vars /\ WF_vars(SearchNext)

\* moveToAlgebraic(move)
moveToAlgebraic(move) ==
  LET from == indexToSquare(move.from)
      to == indexToSquare(move.to)
      promotion == IF move.promotion # Null
                     THEN <<"=", ToUpperCase(move.promotion)>>
                     ELSE <<>>
  IN from \o to \o promotion

\* analyzePosition, lines 515-522: the object returned for the result of
\* search; evaluation is the quotient score / 100, kept as its two terms
AnalysisOf(res, depth) ==
  [bestMove |-> IF res.move # NoMove THEN moveToAlgebraic(res.move) ELSE Null,
   evaluation |-> [score |-> res.score, per |-> 100],
   depth |-> depth,
   moveObject |-> res.move]

\* ------------------------------------------------------------------------
\* Properties of search
\* ------------------------------------------------------------------------

\* the root call of search has just been entered
AtRootEntry == pc = "searching" /\ Len(stack) = 1 /\ Top.at = "entry"

\* C3: in the standard starting position generateMoves returns exactly 20
\* moves, 16 of pawns and 4 of knights, and a depth-1 search started there
\* evaluates exactly 20 positions.
C3_StartPositionHasTwentyMoves ==
  text = StartFen
    => /\ AtRootEntry
            => LET ms == generateMoves(state).legal
               IN /\ Len(ms) = 20
                  /\ Cardinality({k \in 1..Len(ms) : ms[k].piece = "P"}) = 16
                  /\ Cardinality({k \in 1..Len(ms) : ms[k].piece = "N"}) = 4
       /\ (pc = "done" /\ rootDepth = 1) => evals = 20

\* C5: for 7k/5Q2/6K1/8/8/8/8/8 b - - 0 1 generateMoves returns no move and
\* search returns score 0 and no best move, at every positive depth.
C5_StalemateScoresZero ==
  text = StalemateFen
    => /\ AtRootEntry => Len(generateMoves(state).legal) = 0
       /\ pc = "done" => (result.score = 0 /\ result.move = NoMove)

\* C10: of two checkmates of the same side scored in one search, the one
\* fewer plies from the root has the strictly greater score when Black is
\* mated and the strictly smaller score when White is mated.
C10_FasterMateScoresBetter ==
  \A a \in mates : \A b \in mates :
    (a.white = b.white /\ a.ply < b.ply)
      => IF a.white THEN a.score < b.score ELSE a.score > b.score

\* C11: whenever a call of search returns, after the last move or on the
\* beta <= alpha cutoff or without a move to try, state is the Position it
\* was when the call was entered: board, side to move, castling flags,
\* en-passant target, halfmove clock and fullmove counter.
C11_SearchRestoresPosition ==
  [][(pc = "searching" /\ Len(stack') = Len(stack) - 1)
       => SamePosition(state', Top.entered)]_vars

\* position p has a move that does not leave the mover's king attacked by
\* the other side
HasLegalMove(p) ==
  LET ms == PseudoLegalMoves(p)
  IN \E k \in 1..Len(ms) : ~LeavesKingAttacked(p, ms[k])

\* C12: analyzePosition with a positive depth returns bestMove null exactly
\* when the side to move has no legal move in the parsed position; otherwise
\* bestMove is the coordinate text of one of the moves generateMoves returns
\* for the parsed position.
C12_BestMoveNullIffNoLegalMove ==
  pc = "done"
    => LET analysis == AnalysisOf(result, rootDepth)
           returned == generateMoves(entry).legal
       IN /\ (analysis.bestMove = Null) <=> ~HasLegalMove(entry)
          /\ analysis.bestMove # Null
               => \E k \in 1..Len(returned) :
                    moveToAlgebraic(returned[k]) = analysis.bestMove

\* the index of the first element of seq equal to v
FirstIndexOf(seq, v) ==
  CHOOSE i \in 1..Len(seq) : seq[i] = v /\ \A j \in 1..(i - 1) : seq[j] # v

\* the greatest (for White) or least (for Black) of the scores
BestOf(scores, white) ==
  CHOOSE v \in {scores[i] : i \in 1..Len(scores)} :
    \A i \in 1..Len(scores) : IF white THEN scores[i] <= v ELSE scores[i] >= v

\* C13: the root call of search, with the full window, returns the best of
\* the scores its recursive calls returned and, of the moves that got that
\* score, the first in generateMoves order: a later move with an equal score
\* does not replace it.
C13_FirstOfEqualScoresWins ==
  [][(pc = "searching" /\ Len(stack) = 1 /\ Top.at = "called" /\ pc' = "done")
       => LET scores == Append(Top.scores, result.score)
          IN /\ result'.score = BestOf(scores, Top.white)
             /\ result'.move = Top.moves[FirstIndexOf(scores, result'.score)]]_vars

\* in the loop of the root call a move has got a score equal to the best of
\* the earlier moves' scores
C13_TieAtRoot ==
  /\ pc = "searching" /\ Len(stack) = 1 /\ Top.at = "called"
  /\ Len(Top.scores) >= 1
  /\ result.score = Top.bestScore
  /\ Top.bestMove # Top.moves[Top.k]

\* plain minimax: the recursion of search with the `beta <= alpha` test
\* taken out, on the same generateMoves, makeMove, undoMove, evaluate and
\* mate and stalemate scores; the value is the returned score and move, the
\* Position object as the call leaves it and the number of evaluate calls
RECURSIVE Minimax(_, _), MinimaxRange(_, _, _, _, _, _)
MinimaxNoMoves(p, depth) ==
  IF isSquareAttacked(p, findKing(p, p.whiteToMove), ~p.whiteToMove)
    THEN MateScore(p.whiteToMove, depth)
    ELSE 0

\* one pass of the loop body: acc is the best score and move so far, the
\* Position object and the evaluate calls so far
MinimaxStep(acc, depth, white, move) ==
  LET made == makeMove(acc.state, move)
      sub == Minimax(made.state, depth - 1)
      better == (white /\ sub.score > acc.score) \/ (~white /\ sub.score < acc.score)
  IN [score |-> IF better THEN sub.score ELSE acc.score,
      move |-> IF better THEN move ELSE acc.move,
      state |-> undoMove(sub.state, made.undo),
      evals |-> acc.evals + sub.evals]

\* the passes of the loop for moves[lo..hi] in order, from acc
MinimaxRange(acc, depth, white, moves, lo, hi) ==
  IF lo = hi
    THEN MinimaxStep(acc, depth, white, moves[lo])
    ELSE CHOOSE r \in
           {MinimaxRange(first, depth, white, moves, (lo + hi) \div 2 + 1, hi) :
              first \in {MinimaxRange(acc, depth, white, moves, lo, (lo + hi) \div 2)}} :
           TRUE

Minimax(p, depth) ==
  IF depth = 0
    THEN [score |-> evaluate(p), move |-> NoMove, state |-> p, evals |-> 1]
    ELSE LET gen == generateMoves(p)
         IN IF Len(gen.legal) = 0
              THEN [score |-> MinimaxNoMoves(gen.state, depth), move |-> NoMove,
                    state |-> gen.state, evals |-> 0]
              ELSE MinimaxRange([score |-> IF gen.state.whiteToMove THEN NegInf ELSE PosInf,
                                 move |-> NoMove, state |-> gen.state, evals |-> 0],
                                depth, gen.state.whiteToMove, gen.legal, 1, Len(gen.legal))

\* the largest depth for which plain minimax is computed
MaxPlainDepth == 3

NestedWithinDepth ==
  pc = "searching"
    => /\ Len(stack) <= rootDepth + 1
       /\ \A i \in 1..Len(stack) :
            /\ stack[i].depth = rootDepth - (i - 1)
            /\ stack[i].depth >= 0
            /\ i < Len(stack) => stack[i].makes = stack[i].undos + 1

\* a step with which the frame on top returns: a depth-0 frame returns the
\* static evaluation and has generated and applied no move; every frame has
\* undone each move it made, the last one in this step
ReturnsBalanced ==
  (pc = "searching" /\ Len(stack') = Len(stack) - 1)
    => /\ Top.depth = 0
            => /\ Top.at = "entry" /\ Top.makes = 0 /\ Top.moves = <<>>
               /\ state' = state
               /\ result' = [score |-> evaluate(state), move |-> NoMove]
       /\ Top.at = "entry" => Top.makes = 0 /\ Top.undos = 0
       /\ Top.at # "entry"
            => /\ Top.at = "called"
               /\ Top.makes = Top.undos + 1
               /\ state' = undoMove(state, Top.undo)

\* C24: search terminates: the recursion nests at most d frames below the
\* root, every frame has called undoMove once for each makeMove when it
\* returns, and a depth-0 call returns the static evaluation without
\* generating or applying a move.
C24_SearchTerminates ==
  /\ []NestedWithinDepth
  /\ [][ReturnsBalanced]_vars
  /\ <>(pc = "done")

\* a search of the largest depth has returned after depth-0 calls
C24_DeepSearchReturned ==
  pc = "done" /\ rootDepth = MaxFairDepth /\ evals > 0

\* ------------------------------------------------------------------------
\* Codec: fenToState on a position text, generateFEN on the Position it
\* returned, fenToState on the written text; and analyzePosition on the
\* text with the default depth
\* ------------------------------------------------------------------------

\* eight empty ranks: 8/8/8/8/8/8/8/8
EmptyRanks ==
  <<"8", "/", "8", "/", "8", "/", "8", "/", "8", "/", "8", "/", "8", "/",
    "8">>

\* the ranks of the starting position: rnbqkbnr/pppppppp/8/8/8/8/PPPPPPPP/RNBQKBNR
StartRanks ==
  <<"r", "n", "b", "q", "k", "b", "n", "r", "/", "p", "p", "p", "p", "p",
    "p", "p", "p", "/", "8", "/", "8", "/", "8", "/", "8", "/", "P", "P",
    "P", "P", "P", "P", "P", "P", "/", "R", "N", "B", "Q", "K", "B", "N",
    "R">>

\* rank 1 sums to 9 squares: 4k3/8/8/8/8/8/8/4K4
LongRank ==
  <<"4", "k", "3", "/", "8", "/", "8", "/", "8", "/", "8", "/", "8", "/",
    "8", "/", "4", "K", "4">>

\* rank 1 sums to 7 squares: 4k3/8/8/8/8/8/8/4K2
ShortRank ==
  <<"4", "k", "3", "/", "8", "/", "8", "/", "8", "/", "8", "/", "8", "/",
    "8", "/", "4", "K", "2">>

\* x is no piece letter: 4k3/8/8/8/8/8/8/4K2x
UnknownLetter ==
  <<"4", "k", "3", "/", "8", "/", "8", "/", "8", "/", "8", "/", "8", "/",
    "8", "/", "4", "K", "2", "x">>

\* seven ranks: 4k3/8/8/8/8/8/4K3
SevenRanks ==
  <<"4", "k", "3", "/", "8", "/", "8", "/", "8", "/", "8", "/", "8", "/",
    "4", "K", "3">>

BoardTexts ==
  {EmptyRanks, StartRanks, LongRank, ShortRank, UnknownLetter, SevenRanks}

\* castling fields: none, all four rights, a letter that names no right
CastlingTexts == {<<"-">>, <<"K", "Q", "k", "q">>, <<"K", "X">>}

\* en-passant fields: none, e3, and the tokens b0 and z9 that name no
\* en-passant square
EnPassantTexts == {<<"-">>, <<"e", "3">>, <<"b", "0">>, <<"z", "9">>}

\* Array.prototype.join(" ")
RECURSIVE JoinFrom(_, _)
JoinFrom(fields, k) ==
  IF k > Len(fields) THEN <<>>
  ELSE (IF k > 1 THEN <<" ">> ELSE <<>>) \o fields[k] \o JoinFrom(fields, k + 1)

Join(fields) == JoinFrom(fields, 1)

\* the fields of a six-field text
SixFields(boardPart, castlingPart, epPart) ==
  <<boardPart, <<"w">>, castlingPart, epPart, <<"0">>, <<"1">>>>

\* the texts with three to seven fields
FieldCounts == 3..7

CodecTexts ==
  {Join(SixFields(b, c, e)) : b \in BoardTexts, c \in CastlingTexts, e \in EnPassantTexts}
    \cup {Join(SubSeq(SixFields(EmptyRanks, <<"-">>, <<"-">>) \o <<<<"x">>>>, 1, n)) :
            n \in FieldCounts}

\* analyzePosition, line 511: options.depth || 3
DefaultDepth == 3

CodecInit ==
  /\ text \in CodecTexts
  /\ pc = "text"
  /\ state = fenToState(StartFen).state
  /\ entry = state
  /\ prior = state
  /\ legal = <<>> /\ undo = NoUndo /\ ply = 0
  /\ stack = <<>> /\ result = NoResult /\ evals = 0 /\ mates = {}
  /\ rootDepth = 0
  /\ parsed = NoParse /\ written = <<>> /\ reparsed = NoParse
  /\ probe = NoProbe
  /\ page = NoPage

\* fenToState(text)
ParseText ==
  /\ pc = "text"
  /\ parsed' = fenToState(text)
  /\ pc' = "parsed"
  /\ UNCHANGED <<probe, page, state, legal, entry, prior, undo, ply, stack, result, evals,
                 mates, text, rootDepth, written, reparsed>>

\* generateFEN of the Position fenToState returned
WriteText ==
  /\ pc = "parsed"
  /\ ~parsed.threw
  /\ written' = generateFEN(parsed.state)
  /\ pc' = "written"
  /\ UNCHANGED <<probe, page, state, legal, entry, prior, undo, ply, stack, result, evals,
                 mates, text, rootDepth, parsed, reparsed>>

\* fenToState of the written text
ReparseText ==
  /\ pc = "written"
  /\ reparsed' = fenToState(written)
  /\ pc' = "reparsed"
  /\ UNCHANGED <<probe, page, state, legal, entry, prior, undo, ply, stack, result, evals,
                 mates, text, rootDepth, parsed, written>>

\* analyzePosition, lines 511-514, when fenToState throws: the exception
\* leaves analyzePosition
AnalyzeThrows ==
  /\ pc = "text"
  /\ fenToState(text).threw
  /\ parsed' = fenToState(text)
  /\ pc' = "failed"
  /\ UNCHANGED <<probe, page, state, legal, entry, prior, undo, ply, stack, result, evals,
                 mates, text, rootDepth, written, reparsed>>

\* analyzePosition, lines 511-514, when fenToState returns: search is
\* called on the clone
AnalyzeSearches ==
  /\ pc = "text"
  /\ \E p \in {fenToState(text)} :
       /\ ~p.threw
       /\ parsed' = p
       /\ state' = cloneState(p.state)
  /\ stack' = <<Frame(DefaultDepth, NegInf, PosInf, state')>>
  /\ rootDepth' = DefaultDepth
  /\ pc' = "searching"
  /\ UNCHANGED <<probe, page, legal, entry, prior, undo, ply, result, evals, mates, text,
                 written, reparsed>>

CodecNext ==
  \/ ParseText
  \/ WriteText
  \/ ReparseText
  \/ AnalyzeThrows
  \/ AnalyzeSearches

SpecCodec == CodecInit /\ [][CodecNext]_vars

\* ------------------------------------------------------------------------
\* Properties of the codec
\* ------------------------------------------------------------------------

\* C8: for a Position p returned by fenToState, fenToState(generateFEN(p))
\* returns a Position equal to p on the 64 squares, the side to move, the
\* castling flags, the en-passant target and the two counters, and the
\* text generateFEN writes has exactly six fields separated by spaces.
C8_WrittenTextParsesBack ==
  /\ pc \in {"written", "reparsed"} => Len(Split(written, " ")) = 6
  /\ pc = "reparsed"
       => /\ ~reparsed.threw
          /\ SamePosition(reparsed.state, parsed.state)

PieceLetters == {"p", "n", "b", "r", "q", "k", "P", "N", "B", "R", "Q", "K"}

\* the squares a rank text covers
RECURSIVE RankSum(_, _)
RankSum(rank, i) ==
  IF i > Len(rank) THEN 0
  ELSE (IF IsDigit(rank[i]) THEN IndexOf(DIGITS, rank[i]) ELSE 1) + RankSum(rank, i + 1)

WrongFieldCount(t) == Len(Split(t, " ")) # 6

BadRankSum(t) ==
  LET ranks == Split(Split(t, " ")[1], "/")
  IN \E r \in 1..Len(ranks) : RankSum(ranks[r], 1) # 8

UnknownPieceLetter(t) ==
  LET boardPart == Split(t, " ")[1]
  IN \E i \in 1..Len(boardPart) :
       ~(boardPart[i] \in PieceLetters \/ IsDigit(boardPart[i]) \/ boardPart[i] = "/")

InvalidCastlingToken(t) ==
  LET token == Field(Split(t, " "), 2)
  IN /\ token # Undefined
     /\ token # <<"-">>
     /\ \/ token = <<>>
        \/ \E i \in 1..Len(token) : token[i] \notin {"K", "Q", "k", "q"}

InvalidEnPassantToken(t) ==
  LET token == Field(Split(t, " "), 3)
  IN /\ token # Undefined
     /\ token # <<"-">>
     /\ ~(/\ Len(token) = 2
          /\ IndexOf(FILES, token[1]) >= 0
          /\ token[2] \in {"3", "6"})

Malformed(t) ==
  \/ WrongFieldCount(t)
  \/ BadRankSum(t)
  \/ UnknownPieceLetter(t)
  \/ InvalidCastlingToken(t)
  \/ InvalidEnPassantToken(t)

\* C9: for a text with a wrong number of fields, a rank that does not sum to
\* 8 squares, an unknown piece letter, an invalid castling token or an
\* invalid en-passant token, fenToState throws: it returns no Position, and
\* analyzePosition starts no search.
C9_MalformedTextIsRejected ==
  Malformed(text)
    => /\ pc \in {"parsed", "written", "reparsed"} => parsed.threw
       /\ pc # "searching"

\* ------------------------------------------------------------------------
\* Probe: isSquareAttacked, generateJumpMoves and generateKingMoves called
\* on their own, on a parsed position and on the positions the legality
\* filter hands to isSquareAttacked (one pseudo-legal move applied,
\* line 210); a run observes one call
\* ------------------------------------------------------------------------

ProbeSeeds ==
  {StartFen, CastleFen, NoRightFen, WhitePromoFen, EnPassantFen,
   CastleBothFen, TransitAttackedFen, QueenSideFen, EdgeFen}

ProbeInit ==
  /\ \E fen \in ProbeSeeds :
       /\ text = fen
       /\ state = cloneState(fenToState(fen).state)
  /\ pc = "ready"
  /\ legal = <<>>
  /\ entry = state
  /\ prior = state
  /\ undo = NoUndo
  /\ ply = 0
  /\ PlayIdle

\* generateMoves, line 210: makeMove of one pseudo-legal move
ProbeAfterMove ==
  /\ pc = "ready"
  /\ probe = NoProbe
  /\ \E pseudo \in {PseudoLegalMoves(state)} :
       \E k \in 1..Len(pseudo) :
         \E made \in {makeMove(state, pseudo[k])} :
           /\ prior' = state
           /\ state' = made.state
           /\ undo' = made.undo
  /\ pc' = "made"
  /\ ply' = ply + 1
  /\ probe' = NoProbe
  /\ UNCHANGED <<page, legal, entry, stack, result, evals, mates, text,
                 rootDepth, parsed, written, reparsed>>

\* isSquareAttacked(state, squareIdx, byWhite)
ProbeSquare ==
  /\ probe = NoProbe
  /\ \E squareIdx \in 0..63, byWhite \in BOOLEAN :
       probe' = [kind |-> "attacked", squareIdx |-> squareIdx,
                 byWhite |-> byWhite,
                 attacked |-> isSquareAttacked(state, squareIdx, byWhite),
                 moves |-> <<>>]
  /\ UNCHANGED <<page, state, pc, legal, entry, prior, undo, ply, stack,
                 result, evals, mates, text, rootDepth, parsed, written, reparsed>>

\* generateJumpMoves(state, idx, piece, moves, KNIGHT_DELTAS) for a knight of
\* the side to move, line 191
ProbeJumps ==
  /\ probe = NoProbe
  /\ \E idx \in 0..63 :
       /\ Get(state.board, idx) = (IF state.whiteToMove THEN "N" ELSE "n")
       /\ probe' = [kind |-> "jumps", squareIdx |-> idx,
                    byWhite |-> state.whiteToMove, attacked |-> FALSE,
                    moves |-> generateJumpMoves(state, idx, Get(state.board, idx),
                                                KNIGHT_DELTAS)]
  /\ UNCHANGED <<page, state, pc, legal, entry, prior, undo, ply, stack,
                 result, evals, mates, text, rootDepth, parsed, written, reparsed>>

\* generateKingMoves(state, idx, piece, moves) for the king of the side to
\* move, line 203
ProbeKing ==
  /\ probe = NoProbe
  /\ \E idx \in 0..63 :
       /\ Get(state.board, idx) = (IF state.whiteToMove THEN "K" ELSE "k")
       /\ probe' = [kind |-> "king", squareIdx |-> idx,
                    byWhite |-> state.whiteToMove, attacked |-> FALSE,
                    moves |-> generateKingMoves(state, idx, Get(state.board, idx))]
  /\ UNCHANGED <<page, state, pc, legal, entry, prior, undo, ply, stack,
                 result, evals, mates, text, rootDepth, parsed, written, reparsed>>

ProbeNext == ProbeAfterMove \/ ProbeSquare \/ ProbeJumps \/ ProbeKing

SpecProbe == ProbeInit /\ [][ProbeNext]_vars

\* ------------------------------------------------------------------------
\* Properties of the probes
\* ------------------------------------------------------------------------

\* file (0 = a) and rank (0 = first) of square i of the board
FileOf(i) == i % 8

RankOf(i) == i \div 8

Sign(x) == IF x > 0 THEN 1 ELSE IF x < 0 THEN -1 ELSE 0

\* the squares strictly between a and s, which share a file, a rank or a
\* diagonal
Between(a, s) ==
  LET df == FileOf(s) - FileOf(a)
      dr == RankOf(s) - RankOf(a)
  IN {(RankOf(a) + t * Sign(dr)) * 8 + FileOf(a) + t * Sign(df) :
        t \in 1..(Max(Abs(df), Abs(dr)) - 1)}

Unobstructed(board, a, s) == \A b \in Between(a, s) : board[b] = Null

\* the piece on square a is of the attacking colour and attacks square s by
\* the geometry of the board
PieceAttacks(board, a, s, byWhite) ==
  LET piece == board[a]
      df == FileOf(s) - FileOf(a)
      dr == RankOf(s) - RankOf(a)
      diagonal == Abs(df) = Abs(dr) /\ Unobstructed(board, a, s)
      straight == (df = 0 \/ dr = 0) /\ Unobstructed(board, a, s)
  IN /\ a # s
     /\ piece \in (IF byWhite THEN {"P", "N", "B", "R", "Q", "K"}
                              ELSE {"p", "n", "b", "r", "q", "k"})
     /\ \/ piece \in {"P", "p"} /\ Abs(df) = 1 /\ dr = (IF byWhite THEN 1 ELSE -1)
        \/ piece \in {"N", "n"} /\ {Abs(df), Abs(dr)} = {1, 2}
        \/ piece \in {"B", "b", "Q", "q"} /\ diagonal
        \/ piece \in {"R", "r", "Q", "q"} /\ straight
        \/ piece \in {"K", "k"} /\ Abs(df) <= 1 /\ Abs(dr) <= 1

AttackedByGeometry(board, s, byWhite) ==
  \E a \in 0..63 : PieceAttacks(board, a, s, byWhite)

\* the castle moves of a list of moves
CastlesOf(moves) == {moves[k] : k \in {j \in 1..Len(moves) : moves[j].flag = "castle"}}

\* C19: a castle move is generated only if the matching castling flag is
\* set, the king is on e1 (White) or e8 (Black), every square between king
\* and rook is empty, and the king's start square, the square it crosses and
\* the square it lands on are not attacked by the opponent.
C19_CastleGeneratedOnlyWhenAllowed ==
  probe.kind = "king"
    => \A m \in CastlesOf(probe.moves) :
         LET white == state.whiteToMove
             home == IF white THEN 4 ELSE 60
             kingSide == m.castle \in {"K", "k"}
             step == IF kingSide THEN 1 ELSE -1
         IN /\ m.castle \in (IF white THEN {"K", "Q"} ELSE {"k", "q"})
            /\ state.castling[m.castle]
            /\ m.from = home
            /\ state.board[home] = (IF white THEN "K" ELSE "k")
            /\ m.to = home + 2 * step
            /\ \A sq \in (IF kingSide THEN {home + 1, home + 2}
                                      ELSE {home - 1, home - 2, home - 3}) :
                 state.board[sq] = Null
            /\ \A sq \in {home, home + step, home + 2 * step} :
                 ~AttackedByGeometry(state.board, sq, ~white)

\* a queen-side castle is generated while the opponent attacks the b-file
\* square beside the rook
C19_QueenSideCastleWithBFileAttacked ==
  /\ probe.kind = "king"
  /\ \E m \in CastlesOf(probe.moves) :
       /\ m.castle \in {"Q", "q"}
       /\ AttackedByGeometry(state.board, m.to - 1, ~state.whiteToMove)

\* C20: isSquareAttacked(state, s, byWhite) is true exactly when a piece of
\* the attacking colour attacks s by file and rank geometry (pawn, knight,
\* bishop or queen on a clear diagonal, rook or queen on a clear file or
\* rank, king), it leaves state as it was, and every move generateJumpMoves
\* makes for a knight is a (1,2) or (2,1) jump.
C20_AttacksFollowGeometry ==
  [][/\ probe'.kind = "attacked"
          => /\ state' = state
             /\ probe'.attacked =
                  AttackedByGeometry(state.board, probe'.squareIdx, probe'.byWhite)
     /\ probe'.kind = "jumps"
          => \A k \in 1..Len(probe'.moves) :
               {Abs(FileOf(probe'.moves[k].to) - FileOf(probe'.moves[k].from)),
                Abs(RankOf(probe'.moves[k].to) - RankOf(probe'.moves[k].from))}
                 = {1, 2}]_vars

\* a knight of the attacking colour stands at a knight's index offset from
\* the probed square, on the far side of a board edge, and no attack is
\* reported
C20_WrappedOffsetNotReported ==
  /\ probe.kind = "attacked"
  /\ ~probe.attacked
  /\ \E d \in {-17, -15, -10, -6, 6, 10, 15, 17} :
       /\ probe.squareIdx + d \in 0..63
       /\ state.board[probe.squareIdx + d] = (IF probe.byWhite THEN "N" ELSE "n")
       /\ Abs(FileOf(probe.squareIdx + d) - FileOf(probe.squareIdx)) > 2


\* ------------------------------------------------------------------------
\* Page script: init, the MutationObserver callback, the analysis timer and
\* analyzeBoard. Time passes in steps of TickMs; a timer runs when it is
\* due, before the page or the window does anything else; the observer's
\* callback runs right after the task that queued records for it.
\* page.board is what the document holds: no board element ("absent"), one
\* whose pieces and position text the script and the engine can read
\* ("pieces"), one with a piece element whose data-piece has one character,
\* for which readPiece throws at line 190 ("badpiece"), or one whose data-fen
\* makes analyzePosition throw ("badfen").
\* page.sinceNotify, page.calls and page.burst record the run: the time since
\* the callback last ran, the analyzeBoard calls since then, and the number
\* of callback runs that followed each other within AnalyzeDelay.
\* ------------------------------------------------------------------------

\* observeBoard, line 70: the delay of the analysis timer in ms
AnalyzeDelay == 400

\* init, line 13: the delay of the retry of init in ms
InitRetryDelay == 1000

\* the step of the clock in ms
TickMs == 100

\* the callback runs counted in a row
MaxBurst == 3

engineVars ==
  <<state, pc, legal, entry, prior, undo, ply, stack, result, evals, mates,
    text, rootDepth, parsed, written, reparsed, probe>>

BoardKinds == {"pieces", "badpiece", "badfen"}

\* line 2 and line 273: the engine is constructed, init is about to run
PageInit ==
  /\ \E b \in {"absent"} \cup BoardKinds :
       page = [NoPage EXCEPT !.phase = "start", !.board = b]
  /\ text = StartFen
  /\ pc = "page"
  /\ state = fenToState(StartFen).state
  /\ entry = state
  /\ prior = state
  /\ legal = <<>> /\ undo = NoUndo /\ ply = 0
  /\ stack = <<>> /\ result = NoResult /\ evals = 0 /\ mates = {}
  /\ rootDepth = DefaultDepth
  /\ parsed = NoParse /\ written = <<>> /\ reparsed = NoParse
  /\ probe = NoProbe

\* resizeOverlay, lines 42-52: the writes to the overlay canvas's width,
\* height and style; the canvas is a child of the board element (line 37),
\* so once the observer is registered (line 72: childList, subtree,
\* attributes) each of these attribute writes queues a record for it,
\* whether or not the value written differs from the one held
resizeOverlay(p) ==
  IF ~p.overlay THEN p
  ELSE [p EXCEPT !.records = @ \/ p.observing]

\* setupOverlay, lines 27-40: the canvas is made, appended to the board
\* element and sized
setupOverlay(p) == resizeOverlay([p EXCEPT !.overlay = TRUE])

\* observeBoard, lines 67-73
observeBoard(p) == [p EXCEPT !.observing = TRUE]

\* analyzeBoard, lines 75-83: the page after the call and whether the call
\* threw. extractPosition returns an object whenever it returns (line 110),
\* so line 77 never leaves; the sidebar (a child of document.body, line 64)
\* and the canvas bitmap are outside what the observer is told of
analyzeBoard(p) ==
  IF p.board = "badpiece"
    THEN [page |-> [p EXCEPT !.calls = @ + 1], threw |-> TRUE]
    ELSE [page |-> [resizeOverlay(p) EXCEPT !.calls = @ + 1],
          threw |-> p.board = "badfen"]

\* setTimeout's return value: a positive id that no pending timer has and
\* that was not handed out for the timer analyzeTimeout still names
FreshTimer(p) ==
  CHOOSE n \in 1..(Cardinality(p.timers) + 2) :
    /\ n # p.analyzeTimeout
    /\ \A t \in p.timers : t.id # n
    /\ \A m \in 1..(n - 1) : m = p.analyzeTimeout \/ \E t \in p.timers : t.id = m

NoneDue(p) == p.initLeft # 0 /\ \A t \in p.timers : t.left > 0

\* init, lines 10-21: the first run and the runs of the retry timer
init ==
  /\ page.phase = "start" \/ (page.phase = "loading" /\ page.initLeft = 0)
  /\ IF page.board = "absent"
       THEN page' = [page EXCEPT !.phase = "loading", !.initLeft = InitRetryDelay]
       ELSE \E done \in {analyzeBoard(observeBoard(setupOverlay(page)))} :
              page' = [done.page EXCEPT !.phase = "running", !.initLeft = -1,
                                        !.listening = ~done.threw]
  /\ UNCHANGED engineVars

\* the page changes the board element or what is below it: the element
\* appears, pieces move, attributes are rewritten
PageChanges ==
  /\ page.phase \in {"loading", "running"}
  /\ ~page.quiet
  /\ NoneDue(page)
  /\ \E b \in BoardKinds :
       page' = [page EXCEPT !.board = b, !.records = @ \/ page.observing]
  /\ UNCHANGED engineVars

\* the page and the window stop changing anything
PageStops ==
  /\ page.phase \in {"loading", "running"}
  /\ ~page.quiet
  /\ page' = [page EXCEPT !.quiet = TRUE]
  /\ UNCHANGED engineVars

\* line 20: the window's resize listener
Resize ==
  /\ page.listening
  /\ ~page.quiet
  /\ NoneDue(page)
  /\ page' = resizeOverlay(page)
  /\ UNCHANGED engineVars

\* The callback without the clearTimeout of line 69
ObserverCallbackNoClear ==
  /\ page.records
  /\ \E id \in {FreshTimer(page)} :
       page' = [page EXCEPT
                  !.records = FALSE,
                  !.timers = @ \cup {[id |-> id, left |-> AnalyzeDelay]},
                  !.analyzeTimeout = id,
                  !.burst = IF page.analyzeTimeout # 0 /\ page.sinceNotify < AnalyzeDelay
                              THEN Min(MaxBurst, @ + 1) ELSE 1,
                  !.sinceNotify = 0,
                  !.calls = 0]
  /\ UNCHANGED engineVars

\* observeBoard, lines 68-71: the observer's callback
ObserverCallback ==
  /\ page.records
  /\ \E id \in {FreshTimer(page)} :
       page' = [page EXCEPT
                  !.records = FALSE,
                  !.timers = {t \in @ : page.analyzeTimeout = 0 \/ t.id # page.analyzeTimeout}
                               \cup {[id |-> id, left |-> AnalyzeDelay]},
                  !.analyzeTimeout = id,
                  !.burst = IF page.analyzeTimeout # 0 /\ page.sinceNotify < AnalyzeDelay
                              THEN Min(MaxBurst, @ + 1) ELSE 1,
                  !.sinceNotify = 0,
                  !.calls = 0]
  /\ UNCHANGED engineVars

\* line 70: the analysis timer is due and runs analyzeBoard; what the call
\* throws ends the timer's task and nothing else
TimerFires ==
  /\ ~page.records
  /\ \E t \in page.timers :
       /\ t.left = 0
       /\ \E done \in {analyzeBoard([page EXCEPT !.timers = @ \ {t}])} :
            page' = done.page
  /\ UNCHANGED engineVars

\* TickMs pass with nothing due and no callback waiting
TimePasses ==
  /\ page.phase \in {"loading", "running"}
  /\ ~page.records
  /\ NoneDue(page)
  /\ page' = [page EXCEPT
                !.timers = {[id |-> t.id, left |-> Max(0, t.left - TickMs)] : t \in @},
                !.initLeft = IF @ > 0 THEN Max(0, @ - TickMs) ELSE @,
                !.sinceNotify = Min(AnalyzeDelay, @ + TickMs)]
  /\ UNCHANGED engineVars

PageNext ==
  \/ init
  \/ PageChanges
  \/ PageStops
  \/ Resize
  \/ ObserverCallback
  \/ TimerFires
  \/ TimePasses

SpecPage == PageInit /\ [][PageNext]_vars

\* the browser runs the script's tasks and time goes on: init and its
\* retries, the observer's callback once records are queued, a timer once it
\* is due
SpecPageFair ==
  /\ PageInit
  /\ [][PageNext]_vars
  /\ WF_vars(init)
  /\ WF_vars(ObserverCallback)
  /\ WF_vars(TimerFires)
  /\ WF_vars(TimePasses)

\* ------------------------------------------------------------------------
\* Properties of the page script
\* ------------------------------------------------------------------------

\* C25: at most one analysis timer is pending at any time; after the
\* observer's callback ran, analyzeBoard is called exactly once, when the
\* timer of the last callback run is due AnalyzeDelay later, and never while
\* a timer is pending: a burst of notifications less than AnalyzeDelay
\* apart causes one call, after the last of them.
C25_OneTimerOneCallPerBurst ==
  /\ [](Cardinality(page.timers) <= 1)
  /\ [](page.analyzeTimeout # 0
          => page.calls = (IF page.timers = {} THEN 1 ELSE 0))
  /\ [][(page.phase = "running" /\ page'.calls = page.calls + 1)
          => /\ page.calls = 0
             /\ page.sinceNotify >= AnalyzeDelay
             /\ ~page.records
             /\ page'.timers = {}]_vars

\* the callback ran at least twice within AnalyzeDelay of its last run, and
\* the one call of analyzeBoard that followed was made
C25_BurstAnswered ==
  /\ page.burst >= 2
  /\ page.calls = 1
  /\ page.timers = {}
  /\ ~page.records

\* C26: once the page has stopped changing the board element, eventually
\* no analysis timer is pending and no record is queued for the observer,
\* and it stays so: analyzeBoard is not run again.
C26_QuietPageSettles ==
  [](page.quiet => <>[](page.timers = {} /\ ~page.records))

=============================================================================
